---- MODULE Spec2Model ----
(***************************************************************************)
(* Model of the Memos API client (src/memos_api/client.py): the session    *)
(* lifecycle (connect / disconnect / async context manager) and the        *)
(* request routine with its manual retry loop and error classification.    *)
(*                                                                         *)
(* Strings that the code inspects character by character (endpoint paths)  *)
(* are sequences of one-character strings.  A transport handle is a        *)
(* positive integer naming the httpx.AsyncClient instance; 0 is None.      *)
(*                                                                         *)
(* The second half models the in-memory server storage                     *)
(* (src/memos_api/storage.py) with the user, attachment and auth routers   *)
(* in front of it: the stores with their id counters, the access tokens    *)
(* and the sessions.  Client and server have no variable in common; each   *)
(* specification moves one of them and leaves the other as constructed.    *)
(***************************************************************************)
EXTENDS Integers, Sequences, FiniteSets, TLC

\* ------------------------------------------------------------------ bounds
MaxRetries == 4      \* config.retries ranges over 0..MaxRetries
MaxHandles == 2      \* at most this many AsyncClient objects are constructed
MaxSegments == 4     \* endpoint paths have at most this many segments
MaxCreates == 3      \* creates issued to the server storage in one behaviour

\* ------------------------------------------------------- string primitives
RECURSIVE LStrip(_, _)
\* str.lstrip(c): drop every leading occurrence of the character c
LStrip(s, c) ==
    IF s # <<>> /\ Head(s) = c THEN LStrip(Tail(s), c) ELSE s

RECURSIVE RStrip(_, _)
\* str.rstrip(c): drop every trailing occurrence of the character c
RStrip(s, c) ==
    IF s # <<>> /\ s[Len(s)] = c THEN RStrip(SubSeq(s, 1, Len(s) - 1), c) ELSE s

\* str.strip(c)
Strip(s, c) == RStrip(LStrip(s, c), c)

RECURSIVE SplitAcc(_, _, _)
SplitAcc(s, c, cur) ==
    IF s = <<>> THEN <<cur>>
    ELSE IF Head(s) = c THEN <<cur>> \o SplitAcc(Tail(s), c, <<>>)
    ELSE SplitAcc(Tail(s), c, Append(cur, Head(s)))

\* str.split(c): every separator splits, empty segments are kept
Split(s, c) == SplitAcc(s, c, <<>>)

\* ---------------------------------------------------------------- endpoints
V1 == <<"v", "1">>

EpDocs      == <<"/", "d", "o", "c", "s">>
EpMemo42    == <<"/", "a", "p", "i", "/", "v", "1", "/", "m", "e", "m", "o", "s", "/", "4", "2">>
EpOnlyS     == <<"/", "a", "p", "i", "/", "v", "1", "/", "s", "s">>

\* the endpoint paths a request is issued on
Endpoints == {EpDocs, EpMemo42, EpOnlyS}

\* _extract_resource_info: (resource, resource_id) of an endpoint
_extract_resource_info(ep) ==
    LET parts == Split(Strip(ep, "/"), "/")
    IN  IF Len(parts) >= 3 /\ parts[2] = V1
        THEN [resource    |-> RStrip(parts[3], "s"),
              resource_id |-> IF Len(parts) >= 4 THEN parts[4] ELSE <<>>]
        ELSE [resource |-> <<>>, resource_id |-> <<>>]

\* ------------------------------------------------- outcomes of one attempt
Statuses == {200, 201, 400, 401, 403, 404, 500}

\* what the transport gives for one attempt: an exception raised by httpx
\* (connection refused, timeout, ...) or a response with a status code
TransportFailure == [kind |-> "error", status_code |-> 0, body |-> "none"]

\* a response with its body: "detail" is a JSON object with a detail field,
\* "no_detail" a JSON object without one, "not_json" anything else
Bodies == {"detail", "no_detail", "not_json"}
ResponseWith(st, body) == [kind |-> "response", status_code |-> st, body |-> body]
Response(st)     == ResponseWith(st, "detail")
Outcomes == {TransportFailure} \cup {Response(st) : st \in Statuses}

\* (variant: every response counts as a success, whatever its status)
is_success_m(o) == o.kind = "response"

\* httpx.Response.is_success
is_success(o) == o.kind = "response" /\ o.status_code >= 200 /\ o.status_code < 300

\* ---------------------------------------------------------------- exceptions
\* an exception value: its class, the form of its message, the status_code
\* attribute (0 = None) and, for MemosNotFoundError, the resource and id the
\* message names
Exc(cls, msg, code, res, rid) ==
    [cls |-> cls, message |-> msg, status_code |-> code,
     resource |-> res, resource_id |-> rid]

NoException == Exc("None", "", 0, <<>>, <<>>)

MemosConnectionError(msg) == Exc("MemosConnectionError", msg, 0, <<>>, <<>>)
MemosAuthenticationError  == Exc("MemosAuthenticationError", "Authentication failed", 401, <<>>, <<>>)
MemosValidationError(msg) == Exc("MemosValidationError", msg, 400, <<>>, <<>>)
MemosNotFoundError(res, rid) == Exc("MemosNotFoundError", "not found", 404, res, rid)
MemosAPIError(msg, code)  == Exc("MemosAPIError", msg, code, <<>>, <<>>)
\* what httpx raises from AsyncClient.request (ConnectError, TimeoutException, ...)
TransportError            == Exc("httpx.TransportError", "transport", 0, <<>>, <<>>)
CancelledError            == Exc("asyncio.CancelledError", "", 0, <<>>, <<>>)

\* response.json().get("detail", "Validation failed"), and the same default
\* when the body is no JSON object
validation_detail(o) ==
    IF o.body = "detail" THEN "detail of the body" ELSE "Validation failed"

\* _handle_response_error: the exception raised for a non-success response
_handle_response_error(o, ep) ==
    LET info == _extract_resource_info(ep)
    IN  IF o.status_code = 401 THEN MemosAuthenticationError
        ELSE IF o.status_code = 404 /\ info.resource # <<>>
             THEN MemosNotFoundError(info.resource, info.resource_id)
        ELSE IF o.status_code = 400 THEN MemosValidationError(validation_detail(o))
        ELSE IF 500 <= o.status_code /\ o.status_code < 600
             THEN MemosAPIError("Server error", o.status_code)
        ELSE MemosAPIError("HTTP", o.status_code)

\* (variant: only the authentication error is re-raised without retry)
NoRetryClasses_m == {"MemosAuthenticationError"}

\* the exception classes the first except clause of _request re-raises
NoRetryClasses ==
    {"MemosAuthenticationError", "MemosNotFoundError", "MemosValidationError"}

\* (variant: range(retries), without the floor of one attempt)
MaxAttempts_m(r) == r

\* range(max(1, retries)): the number of loop iterations
MaxAttempts(r) == IF r > 1 THEN r ELSE 1

\* attempt < retries - 1: the retry test of the second except clause
ShouldRetry(a, r) == a < r - 1

\* (variant: the exponential without its cap)
wait_time_m(a) == 4 * (2 ^ a)

\* wait_time = min(4 * (2**attempt), 10)
wait_time(a) == IF 4 * (2 ^ a) < 10 THEN 4 * (2 ^ a) ELSE 10

\* ----------------------------------------------------- storage.py: stores
\* A store is [entries |-> id -> record, counter |-> n]; ids and names are
\* character sequences; a record is [name, content], stored by value (every
\* call passes a newly built object, as the routers do).
Digits == <<"0", "1", "2", "3", "4", "5", "6", "7", "8", "9">>

\* str(n) for n >= 0
RECURSIVE Str(_)
Str(n) ==
    IF n < 10 THEN <<Digits[n + 1]>>
    ELSE Str(n \div 10) \o <<Digits[(n % 10) + 1]>>

None == [some |-> FALSE, id |-> <<>>]
Some(id) == [some |-> TRUE, id |-> id]

Stores == {"memos", "users", "attachments"}

Prefix(s) ==
    CASE s = "memos" -> <<"m", "e", "m", "o", "s">>
      [] s = "users" -> <<"u", "s", "e", "r", "s">>
      [] s = "attachments" -> <<"a", "t", "t", "a", "c", "h", "m", "e", "n", "t", "s">>

\* f"{resource}/{id}"
ResourceName(s, id) == Prefix(s) \o <<"/">> \o id

NoRecord == [name |-> <<>>, content |-> "None"]
NoEntries == [i \in {} |-> NoRecord]

\* entries[id] = rec
Put(entries, id, rec) ==
    [i \in (DOMAIN entries) \cup {id} |-> IF i = id THEN rec ELSE entries[i]]

\* del entries[id]
Remove(entries, id) == [i \in (DOMAIN entries) \ {id} |-> entries[i]]

\* (variant: the id is taken from the number of entries)
auto_id_m(st) == Str(Cardinality(DOMAIN st.entries) + 1)

\* the id of a create that passes none: the incremented counter
auto_id(st) == Str(st.counter + 1)

\* create(record, id = None): the store after it, the id used, the return
create(s, st, content, oid) ==
    LET id  == IF oid.some THEN oid.id ELSE auto_id(st)
        rec == [name |-> ResourceName(s, id), content |-> content]
    IN  [st  |-> [st EXCEPT !.entries = Put(st.entries, id, rec),
                            !.counter = IF oid.some THEN st.counter ELSE st.counter + 1],
         id  |-> id,
         ret |-> rec]

\* get(id): the entry or None
get(st, id) == IF id \in DOMAIN st.entries THEN st.entries[id] ELSE NoRecord

\* (variant: update stores the record whether or not the id is present)
update_m(s, st, id, content) ==
    LET rec == [name |-> ResourceName(s, id), content |-> content]
    IN  [st |-> [st EXCEPT !.entries = Put(st.entries, id, rec)], ret |-> rec]

\* update(id, record): None when id is absent, else the entry is replaced
update(s, st, id, content) ==
    IF id \notin DOMAIN st.entries
    THEN [st |-> st, ret |-> NoRecord]
    ELSE LET rec == [name |-> ResourceName(s, id), content |-> content]
         IN  [st |-> [st EXCEPT !.entries = Put(st.entries, id, rec)], ret |-> rec]

\* (variant: delete reports success whether or not the id was present)
delete_m(st, id) ==
    [st |-> [st EXCEPT !.entries = Remove(st.entries, id)], ret |-> TRUE]

\* delete(id): True and the entry removed, or False
delete(st, id) ==
    IF id \in DOMAIN st.entries
    THEN [st |-> [st EXCEPT !.entries = Remove(st.entries, id)], ret |-> TRUE]
    ELSE [st |-> st, ret |-> FALSE]

MemoStorage == [entries |-> NoEntries, counter |-> 0]

AdminUser == [name |-> ResourceName("users", Str(1)), content |-> "admin"]

\* f"users/{user_id}/accessTokens/{token_id}"
TokenName(user_id, token_id) ==
    ResourceName("users", user_id)
        \o <<"/", "a", "c", "c", "e", "s", "s", "T", "o", "k", "e", "n", "s", "/">>
        \o token_id

\* needle in hay, for strings
Contains(hay, needle) ==
    \E i \in 0..(Len(hay) - Len(needle)) : SubSeq(hay, i + 1, i + Len(needle)) = needle

\* create_access_token(user_id, token, token_id = None) on the user store us
create_access_token(us, user_id, content, oid) ==
    LET id  == IF oid.some THEN oid.id ELSE Str(Cardinality(DOMAIN us.access_tokens) + 1)
        tok == [name |-> TokenName(user_id, id), content |-> content]
    IN  [st  |-> [us EXCEPT !.access_tokens = Put(us.access_tokens, id, tok)],
         id  |-> id,
         ret |-> tok]

\* list_access_tokens(user_id): the ids of the tokens listed
list_access_tokens(us, user_id) ==
    {t \in DOMAIN us.access_tokens :
        /\ us.access_tokens[t].name # <<>>
        /\ Contains(us.access_tokens[t].name, ResourceName("users", user_id))}

\* delete_access_token(token_id)
delete_access_token(us, token_id) ==
    IF token_id \in DOMAIN us.access_tokens
    THEN [st |-> [us EXCEPT !.access_tokens = Remove(us.access_tokens, token_id)],
          ret |-> TRUE]
    ELSE [st |-> us, ret |-> FALSE]

NoSession == [user |-> NoRecord]
NoSessions == [k \in {} |-> NoSession]

\* (variant: the sessions are left as they are)
clear_sessions_m(us) == us

\* clear_sessions()
clear_sessions(us) == [us EXCEPT !.sessions = NoSessions]

\* get_current_session(): the session or None
get_current_session(us) ==
    IF "mock-session" \in DOMAIN us.sessions THEN us.sessions["mock-session"]
    ELSE NoSession

\* authenticate(username, password): the session or None
authenticate(us, username, password) ==
    IF username = "admin" /\ password = "password" /\ get(us, Str(1)) # NoRecord
    THEN LET session == [user |-> get(us, Str(1))]
         IN  [st  |-> [us EXCEPT !.sessions =
                          [k \in (DOMAIN us.sessions) \cup {"mock-session"} |->
                              IF k = "mock-session" THEN session ELSE us.sessions[k]]],
              ret |-> session]
    ELSE [st |-> us, ret |-> NoSession]

\* UserStorage.__init__ with _setup_mock_user
UserStorage ==
    [entries |-> Put(NoEntries, Str(1), AdminUser), counter |-> 1,
     access_tokens |-> NoEntries, sessions |-> NoSessions]

AttachmentStorage == [entries |-> NoEntries, counter |-> 0]

ActivityStorage == [entries |-> NoEntries, counter |-> 0]

\* create_activity(activity_data)
create_activity(st, content) ==
    LET id  == Str(st.counter + 1)
        rec == [name |-> <<"a", "c", "t", "i", "v", "i", "t", "i", "e", "s", "/">> \o id,
                content |-> content]
    IN  [st  |-> [st EXCEPT !.entries = Put(st.entries, id, rec), !.counter = st.counter + 1],
         id  |-> id,
         ret |-> rec]

\* AppStorage.__init__
AppStorage ==
    [memos |-> MemoStorage, users |-> UserStorage, attachments |-> AttachmentStorage,
     activities |-> ActivityStorage]

NoIssued == [s \in Stores |-> <<>>]

NoResponse ==
    [op |-> "init", store |-> "none", user |-> <<>>, id |-> <<>>, arg |-> "None",
     auto |-> FALSE, username |-> "None", listed |-> {},
     found |-> FALSE, value |-> NoRecord, status |-> 0]

\* ------------------------------------------------------------------- state
VARIABLES
    retries,         \* config.retries
    client,          \* self._client: a handle, 0 = None
    connected,       \* connection_info.connected
    last_error,      \* connection_info.last_error ("None" = None)
    open,            \* handles constructed and not yet aclose()d
    nextHandle,      \* the handle the next AsyncClient(...) gets
    ctx,             \* position w.r.t. `async with client`: outside/body/exited
    pc,              \* position of _request: idle / attempt / sleep
    endpoint,        \* the endpoint argument of the running _request
    attempt,         \* the loop variable of _request
    last_exception,  \* the local last_exception of _request
    outcomes,        \* the outcomes of the network attempts of this call
    waits,           \* the asyncio.sleep durations of this call
    cancelled,       \* a cancellation was delivered to this call of _request
    result,          \* how the last call ended
    info,            \* the pair _extract_resource_info returned last
    storage,         \* the server's AppStorage: one store per resource
    issued,          \* per store, the ids assigned by create since the reset
    creates,         \* the creates issued so far
    resp             \* the last storage call: arguments, return, HTTP status

lifecycle == <<client, connected, last_error, open, nextHandle>>
reqvars   == <<pc, endpoint, attempt, last_exception, outcomes, waits, cancelled>>
\* the variables no method of MemosClient writes
server    == <<storage, issued, creates, resp>>
outside   == <<info, server>>
clientvars == <<retries, lifecycle, ctx, reqvars, result, info>>
vars == <<retries, client, connected, last_error, open, nextHandle, ctx,
          pc, endpoint, attempt, last_exception, outcomes, waits, cancelled,
          result, outside>>

Returned(op, code) == [op |-> op, kind |-> "return", exc |-> NoException, status_code |-> code]
Raised(op, e)      == [op |-> op, kind |-> "raise", exc |-> e, status_code |-> 0]
Running(op)        == [op |-> op, kind |-> "running", exc |-> NoException, status_code |-> 0]

NoInfo == [resource |-> <<>>, resource_id |-> <<>>]

\* MemosClient.__init__ with a validated MemosClientConfig (retries >= 0)
Init ==
    /\ info = NoInfo
    /\ storage = AppStorage
    /\ issued = NoIssued
    /\ creates = 0
    /\ resp = NoResponse
    /\ retries \in 0..MaxRetries
    /\ client = 0
    /\ connected = FALSE
    /\ last_error = "None"
    /\ open = {}
    /\ nextHandle = 1
    /\ ctx = "outside"
    /\ pc = "idle"
    /\ endpoint = <<>>
    /\ attempt = 0
    /\ last_exception = NoException
    /\ outcomes = <<>>
    /\ waits = <<>>
    /\ cancelled = FALSE
    /\ result = Returned("init", 0)

\* ---------------------------------------------------------------- lifecycle
\* (variant: the transport is closed but the reference to it is kept)
disconnect_m ==
    /\ open' = IF client # 0 THEN open \ {client} ELSE open
    /\ client' = client
    /\ connected' = FALSE

\* MemosClient.disconnect: the effect on the lifecycle variables
disconnect ==
    /\ open' = IF client # 0 THEN open \ {client} ELSE open
    /\ client' = 0
    /\ connected' = FALSE

\* MemosClient.health_check on the probe outcome o; never raises
health_check(c, o) ==
    IF c = 0 THEN FALSE
    ELSE o.kind = "response" /\ o.status_code = 200

\* the exception the try block of connect() raises, NoException if none
connect_try(c, o) ==
    IF ~health_check(c, o) THEN MemosConnectionError("Health check failed")
    ELSE NoException

\* MemosClient.connect with probe outcome o: the effect on the lifecycle
\* variables and on result
connect(op, o) ==
    LET c == nextHandle
        e == connect_try(c, o)
    IN  /\ nextHandle' = nextHandle + 1
        /\ IF e = NoException
           THEN /\ client' = c
                /\ open' = open \cup {c}
                /\ connected' = TRUE
                /\ last_error' = last_error
                /\ result' = Returned(op, 0)
           ELSE IF e.cls = "MemosConnectionError"
           THEN \* except MemosConnectionError: raise
                /\ client' = c
                /\ open' = open \cup {c}
                /\ connected' = connected
                /\ last_error' = last_error
                /\ result' = Raised(op, e)
           ELSE \* except Exception: record, disconnect, raise
                /\ last_error' = e.message
                /\ client' = 0
                /\ open' = open
                /\ connected' = FALSE
                /\ result' = Raised(op, MemosConnectionError("Failed to connect"))

\* await client.connect()
Connect(o) ==
    /\ pc = "idle"
    /\ nextHandle <= MaxHandles
    /\ connect("connect", o)
    /\ UNCHANGED <<outside, retries, ctx, reqvars>>

\* (variant: the transport is closed and dropped but connection_info is
\* left as it was)
Disconnect_m ==
    /\ pc = "idle"
    /\ open' = IF client # 0 THEN open \ {client} ELSE open
    /\ client' = 0
    /\ connected' = connected
    /\ result' = Returned("disconnect", 0)
    /\ UNCHANGED <<outside, retries, last_error, nextHandle, ctx, reqvars>>

\* await client.disconnect()
Disconnect ==
    /\ pc = "idle"
    /\ disconnect
    /\ result' = Returned("disconnect", 0)
    /\ UNCHANGED <<outside, retries, last_error, nextHandle, ctx, reqvars>>

\* __aenter__: connect(); the body is entered only if connect() returns
AEnter(o) ==
    /\ pc = "idle"
    /\ ctx # "body"
    /\ nextHandle <= MaxHandles
    /\ connect("__aenter__", o)
    /\ ctx' = IF connect_try(nextHandle, o) = NoException THEN "body" ELSE ctx
    /\ UNCHANGED <<outside, retries, reqvars>>

\* the ways the body of `async with` is left: it returns, an error raised
\* by an operation propagates out of it, or the task is cancelled in it
ExitWays == {"return", "error", "cancelled"}

\* (variant: the session is closed only when the body returns normally)
AExit_m(how) ==
    /\ ctx = "body"
    /\ pc = "idle"
    /\ how = "error" => (result.kind = "raise" /\ result.exc # CancelledError)
    /\ IF how = "return" THEN disconnect ELSE UNCHANGED <<client, connected, open>>
    /\ ctx' = "exited"
    /\ result' = IF how = "return" THEN Returned("async with", 0)
                 ELSE IF how = "error" THEN Raised("async with", result.exc)
                 ELSE Raised("async with", CancelledError)
    /\ UNCHANGED <<outside, retries, last_error, nextHandle, reqvars>>

\* __aexit__(exc_type, exc_val, exc_tb): runs however the body is left and
\* returns None, so an exception keeps propagating out of the statement
AExit(how) ==
    /\ ctx = "body"
    /\ pc = "idle"
    /\ how = "error" => (result.kind = "raise" /\ result.exc # CancelledError)
    /\ disconnect
    /\ ctx' = "exited"
    /\ result' = IF how = "return" THEN Returned("async with", 0)
                 ELSE IF how = "error" THEN Raised("async with", result.exc)
                 ELSE Raised("async with", CancelledError)
    /\ UNCHANGED <<outside, retries, last_error, nextHandle, reqvars>>

\* ------------------------------------------------------------------ request
\* _request is called: the guard, then the loop is entered
RequestCall(ep) ==
    /\ pc = "idle"
    /\ endpoint' = ep
    /\ outcomes' = <<>>
    /\ waits' = <<>>
    /\ attempt' = 0
    /\ last_exception' = NoException
    /\ cancelled' = FALSE
    /\ IF client = 0
       THEN /\ result' = Raised("request", MemosConnectionError("Client not connected"))
            /\ pc' = "idle"
       ELSE IF 0 < MaxAttempts(retries)
       THEN /\ result' = Running("request")
            /\ pc' = "attempt"
       ELSE \* an empty range: the code after the loop, last_exception is None
            /\ result' = Returned("request", 0)
            /\ pc' = "idle"
    /\ UNCHANGED <<outside, retries, lifecycle, ctx>>

\* (variant: the error handler is called on every response, successful or not)
attempt_exception_m(o, ep) ==
    IF o.kind = "error" THEN TransportError
    ELSE _handle_response_error(o, ep)

\* the exception one loop iteration raises on outcome o (NoException: the
\* response is returned)
attempt_exception(o, ep) ==
    IF o.kind = "error" THEN TransportError
    ELSE IF ~is_success(o) THEN _handle_response_error(o, ep)
    ELSE NoException

\* (variant: when the last attempt fails the client marks itself
\* disconnected and records the error)
RequestAttempt_m(o) ==
    /\ pc = "attempt"
    /\ outcomes' = Append(outcomes, o)
    /\ LET e == attempt_exception(o, endpoint)
       IN  IF e = NoException
           THEN /\ result' = Returned("request", o.status_code)
                /\ pc' = "idle"
                /\ UNCHANGED <<last_exception, waits, connected, last_error>>
           ELSE IF e.cls \in NoRetryClasses
           THEN /\ result' = Raised("request", e)
                /\ pc' = "idle"
                /\ UNCHANGED <<last_exception, waits, connected, last_error>>
           ELSE /\ last_exception' = e
                /\ IF ShouldRetry(attempt, retries)
                   THEN /\ waits' = Append(waits, wait_time(attempt))
                        /\ pc' = "sleep"
                        /\ UNCHANGED <<result, connected, last_error>>
                   ELSE /\ result' = Raised("request", e)
                        /\ pc' = "idle"
                        /\ connected' = FALSE
                        /\ last_error' = e.message
                        /\ UNCHANGED waits
    /\ UNCHANGED <<outside, retries, client, open, nextHandle, ctx, endpoint, attempt, cancelled>>

\* one iteration of the loop: await self._client.request(...) completes
\* with outcome o
RequestAttempt(o) ==
    /\ pc = "attempt"
    /\ outcomes' = Append(outcomes, o)
    /\ LET e == attempt_exception(o, endpoint)
       IN  IF e = NoException
           THEN /\ result' = Returned("request", o.status_code)
                /\ pc' = "idle"
                /\ UNCHANGED <<last_exception, waits>>
           ELSE IF e.cls \in NoRetryClasses
           THEN /\ result' = Raised("request", e)
                /\ pc' = "idle"
                /\ UNCHANGED <<last_exception, waits>>
           ELSE /\ last_exception' = e
                /\ IF ShouldRetry(attempt, retries)
                   THEN /\ waits' = Append(waits, wait_time(attempt))
                        /\ pc' = "sleep"
                        /\ UNCHANGED result
                   ELSE /\ result' = Raised("request", e)
                        /\ pc' = "idle"
                        /\ UNCHANGED waits
    /\ UNCHANGED <<outside, retries, lifecycle, ctx, endpoint, attempt, cancelled>>

\* asyncio.sleep returns; `continue` takes the next value of the range, or
\* the loop ends and the code after it runs
RequestWake ==
    /\ pc = "sleep"
    /\ IF attempt + 1 < MaxAttempts(retries)
       THEN /\ attempt' = attempt + 1
            /\ pc' = "attempt"
            /\ UNCHANGED result
       ELSE /\ pc' = "idle"
            /\ result' = IF last_exception # NoException
                         THEN Raised("request", last_exception)
                         ELSE Returned("request", 0)
            /\ UNCHANGED attempt
    /\ UNCHANGED <<outside, retries, lifecycle, ctx, endpoint, last_exception, outcomes, waits, cancelled>>

\* (variant: the cancellation of the network call is caught by `except
\* Exception` and handled as a failed attempt)
RequestCancel_m ==
    /\ pc \in {"attempt", "sleep"}
    /\ cancelled' = TRUE
    /\ IF pc = "attempt" /\ ShouldRetry(attempt, retries)
       THEN /\ last_exception' = CancelledError
            /\ waits' = Append(waits, wait_time(attempt))
            /\ pc' = "sleep"
            /\ UNCHANGED result
       ELSE /\ pc' = "idle"
            /\ result' = Raised("request", CancelledError)
            /\ UNCHANGED <<last_exception, waits>>
    /\ UNCHANGED <<outside, retries, lifecycle, ctx, endpoint, attempt, outcomes>>

\* the task is cancelled while _request is suspended (in the network call
\* or in the sleep): CancelledError is not an Exception, no clause catches it
RequestCancel ==
    /\ pc \in {"attempt", "sleep"}
    /\ pc' = "idle"
    /\ cancelled' = TRUE
    /\ result' = Raised("request", CancelledError)
    /\ UNCHANGED <<outside, retries, lifecycle, ctx, endpoint, attempt, last_exception, outcomes, waits>>

Next ==
    \/ \E o \in Outcomes : Connect(o)
    \/ Disconnect
    \/ \E o \in Outcomes : AEnter(o)
    \/ \E how \in ExitWays : AExit(how)
    \/ \E ep \in Endpoints : RequestCall(ep)
    \/ \E o \in Outcomes : RequestAttempt(o)
    \/ RequestWake
    \/ RequestCancel

Spec == Init /\ [][Next]_vars

\* ------------------------------------------- the pure methods on inputs
\* the segments endpoint paths are built from
Segments == {<<>>, <<"a", "p", "i">>, V1, <<"m", "e", "m", "o", "s">>,
             <<"s", "s">>, <<"c", "l", "a", "s", "s">>, <<"4", "2">>}

RECURSIVE Join(_)
\* "/" before every segment: <<api, v1, memos>> is "/api/v1/memos"
Join(segs) ==
    IF segs = <<>> THEN <<>> ELSE <<"/">> \o Head(segs) \o Join(Tail(segs))

Paths == {Join(segs) : segs \in UNION {[1..n -> Segments] : n \in 1..MaxSegments}}

\* the non-success responses _handle_response_error is called on
ErrorResponses ==
    {Response(st) : st \in {401, 403, 404, 500, 503}}
        \cup {ResponseWith(400, b) : b \in Bodies}

\* a client on which _extract_resource_info and _handle_response_error are
\* called with one endpoint and one response: the arguments are drawn here
FnInit ==
    /\ retries = 0
    /\ client = 0
    /\ connected = FALSE
    /\ last_error = "None"
    /\ open = {}
    /\ nextHandle = 1
    /\ ctx = "outside"
    /\ pc = "idle"
    /\ endpoint \in Paths
    /\ attempt = 0
    /\ last_exception = NoException
    /\ outcomes \in {<<o>> : o \in ErrorResponses}
    /\ waits = <<>>
    /\ cancelled = FALSE
    /\ result = Returned("init", 0)
    /\ info = NoInfo
    /\ storage = AppStorage
    /\ issued = NoIssued
    /\ creates = 0
    /\ resp = NoResponse

\* resource, resource_id = self._extract_resource_info(endpoint)
ExtractInfo ==
    /\ info' = _extract_resource_info(endpoint)
    /\ result' = Returned("_extract_resource_info", 0)
    /\ UNCHANGED <<retries, lifecycle, ctx, reqvars, server>>

\* self._handle_response_error(response, endpoint): always raises
HandleError ==
    /\ info' = _extract_resource_info(endpoint)
    /\ result' = Raised("_handle_response_error",
                        _handle_response_error(outcomes[1], endpoint))
    /\ UNCHANGED <<retries, lifecycle, ctx, reqvars, server>>

FnNext ==
    \/ ExtractInfo
    \/ HandleError

FnSpec == FnInit /\ [][FnNext]_vars

\* ------------------------------------------------------- SyncMemosClient
\* SyncMemosClient._run_async, `async with self._async_client`: every call
\* of the wrapper enters the context manager of the one wrapped client
SyncEnter(o) == AEnter(o)

\* `await coro(client)`: the one client method of the call, which issues
\* one _request
SyncOperation(ep) ==
    /\ ctx = "body"
    /\ result.op = "__aenter__"
    /\ RequestCall(ep)

\* the way the body `return await coro(client)` is left, from how the
\* operation ended
SyncExitWay(r) ==
    IF r.kind = "return" THEN "return"
    ELSE IF r.exc = CancelledError THEN "cancelled"
    ELSE "error"

\* the operation has ended: the `async with` block is left and
\* asyncio.run returns its result or raises its exception
SyncExit ==
    /\ result.op = "request"
    /\ AExit(SyncExitWay(result))

\* the calls of a SyncMemosClient, one after the other
SyncNext ==
    \/ \E o \in Outcomes : SyncEnter(o)
    \/ \E ep \in Endpoints : SyncOperation(ep)
    \/ \E o \in Outcomes : RequestAttempt(o)
    \/ RequestWake
    \/ RequestCancel
    \/ SyncExit

SyncSpec == Init /\ [][SyncNext]_vars

\* ------------------------------------------------- storage.py and routers
Contents == {"a", "b"}
ExplicitIds == {Str(2)}
LookupIds == {Str(1), Str(2), Str(3)}

\* the routers in front of the user and attachment stores answer 404 for
\* None / False; the memo store is called directly (status 0: no HTTP layer)
http_status(s, found) == IF s = "memos" THEN 0 ELSE IF found THEN 200 ELSE 404

\* create on store s; AttachmentStorage.create takes no id
StoreCreate(s, c, oid) ==
    /\ creates < MaxCreates
    /\ s = "attachments" => ~oid.some
    /\ LET r == create(s, storage[s], c, oid)
       IN  /\ storage' = [storage EXCEPT ![s] = r.st]
           /\ issued' = IF oid.some THEN issued
                        ELSE [issued EXCEPT ![s] = Append(@, r.id)]
           /\ resp' = [op |-> "create", store |-> s, id |-> r.id, arg |-> c,
                       auto |-> ~oid.some, user |-> <<>>, username |-> "None", listed |-> {}, found |-> TRUE, value |-> r.ret,
                       status |-> http_status(s, TRUE)]
    /\ creates' = creates + 1
    /\ UNCHANGED clientvars

StoreGet(s, id) ==
    /\ LET r == get(storage[s], id)
       IN  resp' = [op |-> "get", store |-> s, id |-> id, arg |-> "None",
                    auto |-> FALSE, user |-> <<>>, username |-> "None", listed |-> {},
                    found |-> r # NoRecord, value |-> r,
                    status |-> http_status(s, r # NoRecord)]
    /\ UNCHANGED <<storage, issued, creates, clientvars>>

\* MemoStorage.update, UserStorage.update (attachments have none)
StoreUpdate(s, id, c) ==
    /\ s # "attachments"
    /\ LET r == update(s, storage[s], id, c)
       IN  /\ storage' = [storage EXCEPT ![s] = r.st]
           /\ resp' = [op |-> "update", store |-> s, id |-> id, arg |-> c,
                       auto |-> FALSE, user |-> <<>>, username |-> "None", listed |-> {},
                       found |-> r.ret # NoRecord, value |-> r.ret,
                       status |-> http_status(s, r.ret # NoRecord)]
    /\ UNCHANGED <<issued, creates, clientvars>>

StoreDelete(s, id) ==
    /\ LET r == delete(storage[s], id)
       IN  /\ storage' = [storage EXCEPT ![s] = r.st]
           /\ resp' = [op |-> "delete", store |-> s, id |-> id, arg |-> "None",
                       auto |-> FALSE, user |-> <<>>, username |-> "None", listed |-> {},
                       found |-> r.ret, value |-> NoRecord,
                       status |-> http_status(s, r.ret)]
    /\ UNCHANGED <<issued, creates, clientvars>>

\* (variant: reset constructs the memo, attachment and activity stores anew
\* and keeps the user store)
StoreReset_m ==
    /\ storage' = [AppStorage EXCEPT !["users"] = storage["users"]]
    /\ issued' = NoIssued
    /\ resp' = [NoResponse EXCEPT !.op = "reset"]
    /\ UNCHANGED <<creates, clientvars>>

\* AppStorage.reset(): every store is constructed anew
StoreReset ==
    /\ storage' = AppStorage
    /\ issued' = NoIssued
    /\ resp' = [NoResponse EXCEPT !.op = "reset"]
    /\ UNCHANGED <<creates, clientvars>>

\* the server alone: no client takes part, it stays as constructed
StoreInit == Init /\ retries = 0

StoreNext ==
    \/ \E s \in Stores, c \in Contents, oid \in {None} \cup {Some(i) : i \in ExplicitIds} :
           StoreCreate(s, c, oid)
    \/ \E s \in Stores, id \in LookupIds : StoreGet(s, id)
    \/ \E s \in Stores, id \in LookupIds, c \in Contents : StoreUpdate(s, id, c)
    \/ \E s \in Stores, id \in LookupIds : StoreDelete(s, id)
    \/ StoreReset

StoreSpec == StoreInit /\ [][StoreNext]_vars

\* ------------------------------------------- access tokens (routers/users.py)
TokenUsers == {Str(1), Str(2), Str(10)}
TokenIds == {Str(1), Str(2), Str(3)}

\* POST /users/{user_id}/accessTokens: 404 unless the user exists
TokenCreate(u, oid) ==
    /\ creates < MaxCreates
    /\ IF get(storage["users"], u) = NoRecord
       THEN /\ resp' = [NoResponse EXCEPT !.op = "create_access_token", !.store = "access_tokens",
                                          !.user = u, !.status = 404]
            /\ UNCHANGED <<storage, creates>>
       ELSE LET r == create_access_token(storage["users"], u, "token", oid)
            IN  /\ storage' = [storage EXCEPT !["users"] = r.st]
                /\ resp' = [NoResponse EXCEPT !.op = "create_access_token", !.store = "access_tokens",
                                              !.user = u, !.id = r.id, !.arg = "token",
                                              !.auto = ~oid.some, !.found = TRUE,
                                              !.value = r.ret, !.status = 200]
                /\ creates' = creates + 1
    /\ UNCHANGED <<issued, clientvars>>

\* GET /users/{user_id}/accessTokens
TokenList(u) ==
    /\ resp' = [NoResponse EXCEPT !.op = "list_access_tokens", !.store = "access_tokens",
                                  !.user = u, !.found = TRUE, !.status = 200,
                                  !.listed = list_access_tokens(storage["users"], u)]
    /\ UNCHANGED <<storage, issued, creates, clientvars>>

\* DELETE /users/{user_id}/accessTokens/{token_id}
TokenDelete(u, t) ==
    /\ LET r == delete_access_token(storage["users"], t)
       IN  /\ storage' = [storage EXCEPT !["users"] = r.st]
           /\ resp' = [NoResponse EXCEPT !.op = "delete_access_token", !.store = "access_tokens",
                                         !.user = u, !.id = t, !.found = r.ret,
                                         !.status = IF r.ret THEN 200 ELSE 404]
    /\ UNCHANGED <<issued, creates, clientvars>>

\* the user routes that matter to the tokens: users are created with or
\* without an id, tokens are created, listed and deleted
TokenNext ==
    \/ \E oid \in {None, Some(Str(10))} : StoreCreate("users", "a", oid)
    \/ \E u \in TokenUsers, oid \in {None, Some(Str(1))} : TokenCreate(u, oid)
    \/ \E u \in TokenUsers : TokenList(u)
    \/ \E u \in TokenUsers, t \in TokenIds : TokenDelete(u, t)
    \/ StoreReset

TokenSpec == StoreInit /\ [][TokenNext]_vars

\* ------------------------------------------------- sessions (routers/auth.py)
PasswordCredentials(u, p) == [kind |-> "password", username |-> u, password |-> p]
SSOCredentials == [kind |-> "sso", username |-> "None", password |-> "None"]
NoCredentials == [kind |-> "none", username |-> "None", password |-> "None"]

Credentials ==
    {PasswordCredentials(u, p) : u \in {"admin", "a"}, p \in {"password", "wrong"}}
        \cup {SSOCredentials, NoCredentials}

\* POST /auth/signin
SignIn(cred) ==
    /\ IF cred.kind = "password"
       THEN LET r == authenticate(storage["users"], cred.username, cred.password)
            IN  /\ storage' = [storage EXCEPT !["users"] = r.st]
                /\ resp' = [NoResponse EXCEPT !.op = "signin", !.store = "sessions",
                                              !.username = cred.username,
                                              !.arg = cred.password,
                                              !.found = r.ret # NoSession,
                                              !.value = r.ret.user,
                                              !.status = IF r.ret # NoSession THEN 200 ELSE 401]
       ELSE /\ resp' = [NoResponse EXCEPT !.op = "signin", !.store = "sessions",
                                          !.status = IF cred.kind = "sso" THEN 501 ELSE 400]
            /\ UNCHANGED storage
    /\ UNCHANGED <<issued, creates, clientvars>>

\* GET /auth/status
AuthStatus ==
    /\ LET session == get_current_session(storage["users"])
       IN  resp' = [NoResponse EXCEPT !.op = "status", !.store = "sessions",
                                      !.found = session # NoSession,
                                      !.value = session.user,
                                      !.status = IF session # NoSession THEN 200 ELSE 401]
    /\ UNCHANGED <<storage, issued, creates, clientvars>>

\* POST /auth/signout
SignOut ==
    /\ storage' = [storage EXCEPT !["users"] = clear_sessions(storage["users"])]
    /\ resp' = [NoResponse EXCEPT !.op = "signout", !.store = "sessions", !.status = 200]
    /\ UNCHANGED <<issued, creates, clientvars>>

\* the routes of the auth router, with the user routes that change user 1;
\* the routers keep the UserStorage they were constructed with
AuthNext ==
    \/ \E cred \in Credentials : SignIn(cred)
    \/ AuthStatus
    \/ SignOut
    \/ \E oid \in {None, Some(Str(1))} : StoreCreate("users", "a", oid)
    \/ \E id \in {Str(1), Str(2)} : StoreUpdate("users", id, "a")
    \/ \E id \in {Str(1), Str(2)} : StoreDelete("users", id)

AuthSpec == StoreInit /\ [][AuthNext]_vars

\* ------------------------------------------------------ the whole AppStorage
\* ActivityStorage.create_activity
ActivityCreate ==
    /\ creates < MaxCreates
    /\ LET r == create_activity(storage["activities"], "a")
       IN  /\ storage' = [storage EXCEPT !["activities"] = r.st]
           /\ resp' = [NoResponse EXCEPT !.op = "create_activity", !.store = "activities",
                                         !.id = r.id, !.arg = "a", !.auto = TRUE,
                                         !.found = TRUE, !.value = r.ret]
    /\ creates' = creates + 1
    /\ UNCHANGED <<issued, clientvars>>

\* every part of the storage is written, then reset
AppNext ==
    \/ \E s \in Stores, oid \in {None, Some(Str(2))} : StoreCreate(s, "a", oid)
    \/ \E s \in Stores : StoreDelete(s, Str(1))
    \/ \E oid \in {None, Some(Str(2))} : TokenCreate(Str(1), oid)
    \/ SignIn(PasswordCredentials("admin", "password"))
    \/ ActivityCreate
    \/ StoreReset

AppSpec == StoreInit /\ [][AppNext]_vars

\* ================================================================== claims
\* a transient failure of one attempt: a transport failure or an HTTP 5xx
IsTransient(o) ==
    o.kind = "error" \/ (o.status_code >= 500 /\ o.status_code < 600)

AllTransient(os) == \A i \in 1..Len(os) : IsTransient(os[i])

Is2xx(o) == o.kind = "response" /\ o.status_code \in 200..299

\* the failure a transient outcome stands for
FailureOf(o) ==
    IF o.kind = "error" THEN TransportError
    ELSE MemosAPIError("Server error", o.status_code)

AtLeastOne(n) == IF n >= 1 THEN n ELSE 1

\* a _request call that went past the guard has ended, other than by cancellation
RequestEnded ==
    /\ pc = "idle"
    /\ result.op = "request"
    /\ result.kind \in {"return", "raise"}
    /\ result.exc.cls \notin {"MemosConnectionError", "asyncio.CancelledError"}

Resolved(ep) == _extract_resource_info(ep).resource # <<>>

\* C1: a request whose every attempt failed transiently has made exactly
\* max(1, retries) network attempts, and the error it raised is the failure
\* of its last attempt.
C1_AlwaysFailingAttempts ==
    (RequestEnded /\ AllTransient(outcomes)) =>
        /\ Len(outcomes) = AtLeastOne(retries)
        /\ result = Raised("request", FailureOf(outcomes[Len(outcomes)]))

C1_Witness ==
    /\ retries = 3
    /\ RequestEnded
    /\ outcomes = <<TransportFailure, Response(500), TransportFailure>>
    /\ result = Raised("request", TransportError)

\* a response that ends the request at once: 401, 400, or 404 on a path that
\* resolves to a resource type
IsTerminalResponse(o, ep) ==
    /\ o.kind = "response"
    /\ \/ o.status_code \in {400, 401}
       \/ o.status_code = 404 /\ Resolved(ep)

TerminalError(o, ep) ==
    IF o.status_code = 401 THEN MemosAuthenticationError
    ELSE IF o.status_code = 400 THEN MemosValidationError(validation_detail(o))
    ELSE MemosNotFoundError(_extract_resource_info(ep).resource,
                            _extract_resource_info(ep).resource_id)

\* C2: a 401, a 400, or a 404 on a path that resolves to a resource type is
\* the last attempt of its request: no attempt and no wait follows it, and
\* the matching authentication / validation / not-found error is raised.
C2_TerminalErrorsNotRetried ==
    result.op = "request" =>
        \A i \in 1..Len(outcomes) :
            IsTerminalResponse(outcomes[i], endpoint) =>
                /\ i = Len(outcomes)
                /\ Len(waits) = i - 1
                /\ pc = "idle"
                /\ result = Raised("request", TerminalError(outcomes[i], endpoint))

C2_Witness ==
    /\ retries = 3
    /\ endpoint = EpMemo42
    /\ outcomes = <<TransportFailure, Response(404)>>
    /\ waits = <<4>>
    /\ pc = "idle"
    /\ result = Raised("request", MemosNotFoundError(<<"m", "e", "m", "o">>, <<"4", "2">>))

\* a non-2xx response that is none of 401, 400, 5xx, 404-with-resource
IsOtherStatus(o, ep) ==
    /\ o.kind = "response"
    /\ ~Is2xx(o)
    /\ ~IsTransient(o)
    /\ ~IsTerminalResponse(o, ep)

\* C3: a non-2xx response that is none of 401, 400, 5xx or 404-with-resource
\* received on a connected client is the last attempt of its request and is
\* raised as the generic API error carrying its status code.
C3_OtherStatusNotRetried ==
    (result.op = "request" /\ connected) =>
        \A i \in 1..Len(outcomes) :
            IsOtherStatus(outcomes[i], endpoint) =>
                /\ i = Len(outcomes)
                /\ pc = "idle"
                /\ result = Raised("request", MemosAPIError("HTTP", outcomes[i].status_code))

\* the backoff schedule 4, 8, 10, 10, ... by 0-based attempt index
Backoff(i) == IF i = 0 THEN 4 ELSE IF i = 1 THEN 8 ELSE 10

\* C4: the wait after the failed attempt with index i is min(4 * 2^i, 10);
\* every wait stands between two attempts, so a request that has ended has
\* waited once less than it has attempted, and an always-failing request has
\* waited max(1, retries) - 1 times.
C4_BackoffSchedule ==
    result.op = "request" =>
        /\ \A i \in 1..Len(waits) : waits[i] = Backoff(i - 1)
        /\ pc \in {"attempt", "sleep"} => Len(waits) = Len(outcomes)
        /\ RequestEnded => Len(waits) = Len(outcomes) - 1
        /\ (RequestEnded /\ AllTransient(outcomes)) =>
               Len(waits) = AtLeastOne(retries) - 1

C4_Witness ==
    /\ retries = 4
    /\ RequestEnded
    /\ Len(outcomes) = 4
    /\ AllTransient(outcomes)
    /\ waits = <<4, 8, 10>>

\* C5: when the first k-1 attempts fail transiently and attempt k returns a
\* 2xx response, the request returns that response after exactly k attempts
\* and k-1 waits, and attempts nothing more.
C5_SuccessAfterTransientFailures ==
    result.op = "request" =>
        \A k \in 1..Len(outcomes) :
            (AllTransient(SubSeq(outcomes, 1, k - 1)) /\ Is2xx(outcomes[k])) =>
                /\ k <= AtLeastOne(retries)
                /\ Len(outcomes) = k
                /\ Len(waits) = k - 1
                /\ pc = "idle"
                /\ result = Returned("request", outcomes[k].status_code)

C5_Witness ==
    /\ retries = 3
    /\ outcomes = <<TransportFailure, TransportFailure, Response(200)>>
    /\ waits = <<4, 8>>
    /\ pc = "idle"
    /\ result = Returned("request", 200)

\* C6: a request issued while connection_info.connected is false fails at
\* once with the not-connected error, with no network attempt and no wait.
C6_NotConnectedFailsImmediately ==
    (result.op = "request" /\ ~connected) =>
        /\ pc = "idle"
        /\ result = Raised("request", MemosConnectionError("Client not connected"))
        /\ outcomes = <<>>
        /\ waits = <<>>

\* C7: a connect() whose health probe failed has raised the connection error
\* and leaves connection_info.connected false, whatever it was before.
C7_FailedConnectDisconnects ==
    (result.op = "connect" /\ result.kind = "raise") =>
        /\ result.exc.cls = "MemosConnectionError"
        /\ ~connected

\* C8: after a connect() that failed on its health probe,
\* connection_info.last_error holds the failure message.
C8_FailedConnectRecordsError ==
    (result.op = "connect" /\ result.kind = "raise") => last_error # "None"

\* C9: disconnect() returns from every state, leaves connected false and no
\* transport handle held (the one held before is closed), and a disconnect()
\* right after a disconnect() changes nothing.
C9_DisconnectIdempotent ==
    [][Disconnect =>
          /\ result' = Returned("disconnect", 0)
          /\ ~connected'
          /\ client' = 0
          /\ client \notin open'
          /\ result.op = "disconnect" => UNCHANGED vars]_vars

C9_Witness ==
    /\ result = Returned("disconnect", 0)
    /\ nextHandle > 1
    /\ client = 0
    /\ ~connected
    /\ open = {}

\* C10: the body of `async with client` is entered with connected true and
\* a transport handle held, and however the body is left (return, error of
\* an operation, cancellation) the scope is left with connected false, no
\* handle held and the handle held before closed.
C10_ScopedSession ==
    [][/\ (ctx # "body" /\ ctx' = "body") =>
              (connected' /\ client' # 0 /\ client' \in open')
       /\ (ctx = "body" /\ ctx' # "body") =>
              /\ result'.op = "async with"
              /\ ~connected'
              /\ client' = 0
              /\ client \notin open']_vars

C10_Witness ==
    /\ ctx = "exited"
    /\ result = Raised("async with", CancelledError)
    /\ outcomes # <<>>
    /\ ~connected
    /\ client = 0
    /\ open = {}

\* a call of the synchronous wrapper has returned or raised
SyncCallEnded ==
    /\ ctx # "body"
    /\ pc = "idle"
    /\ result.op \in {"__aenter__", "async with"}

\* C11: after any call of the synchronous wrapper has returned or raised,
\* also one whose connect failed, the wrapped client is disconnected and
\* holds no transport handle, and every transport it constructed is closed.
C11_SyncCallClosesSession ==
    SyncCallEnded => (~connected /\ client = 0 /\ open = {})

\* the segments of a path: split on "/", empty segments discarded
SegmentsOf(path) == SelectSeq(Split(path, "/"), LAMBDA x : x # <<>>)

\* a word with exactly one trailing "s" removed, if it has one
WithoutOneS(w) ==
    IF w # <<>> /\ w[Len(w)] = "s" THEN SubSeq(w, 1, Len(w) - 1) ELSE w

\* the path has at least 3 segments and the second is the version token
HasResourceShape(path) ==
    Len(SegmentsOf(path)) >= 3 /\ SegmentsOf(path)[2] = V1

\* the (resource type, resource id) the parsing rule gives
ParsedByRule(path) ==
    LET p == SegmentsOf(path)
    IN  IF HasResourceShape(path)
        THEN [resource    |-> WithoutOneS(p[3]),
              resource_id |-> IF Len(p) >= 4 THEN p[4] ELSE <<>>]
        ELSE NoInfo

\* C12: for every endpoint path the parsed pair is the one the rule gives:
\* segments split on "/" with empty ones discarded; with at least 3 segments
\* and "v1" second, the type is the third segment less exactly one trailing
\* "s" and the id is the fourth segment or empty; otherwise both are empty.
C12_ResourcePathParsing ==
    result.op = "_extract_resource_info" => info = ParsedByRule(endpoint)

\* C13: a 404 raises the not-found error exactly when the path has at least
\* 3 segments with the version token second, and the generic API error with
\* status 404 otherwise.
C13_NotFoundOnlyForResourcePaths ==
    (result.op = "_handle_response_error" /\ outcomes[1].status_code = 404) =>
        IF HasResourceShape(endpoint)
        THEN result.exc.cls = "MemosNotFoundError"
        ELSE result.exc = MemosAPIError("HTTP", 404)

\* the error class and message the classification names for a response
ClassifiedAs(o, ep) ==
    IF o.status_code = 401 THEN MemosAuthenticationError
    ELSE IF o.status_code = 404 /\ Resolved(ep)
         THEN MemosNotFoundError(_extract_resource_info(ep).resource,
                                 _extract_resource_info(ep).resource_id)
    ELSE IF o.status_code = 400
         THEN MemosValidationError(IF o.body = "detail" THEN "detail of the body"
                                   ELSE "Validation failed")
    ELSE IF o.status_code \in 500..599
         THEN Exc("MemosServerError", "Server error", o.status_code, <<>>, <<>>)
    ELSE MemosAPIError("HTTP", o.status_code)

\* C14: every non-2xx response raises exactly the error its status names
\* (401 authentication, 404 with a resolved resource not-found, 400
\* validation with the body's detail or the generic message, 5xx the server
\* error class, anything else the generic API error), carrying the status.
C14_ErrorClassification ==
    result.op = "_handle_response_error" =>
        /\ result.kind = "raise"
        /\ result.exc = ClassifiedAs(outcomes[1], endpoint)
        /\ result.exc.status_code = outcomes[1].status_code

\* C15: when every attempt of a request failed transiently, the request was
\* retried to the bound whichever kind the failures were, and the last
\* failure is raised: a transport-level failure as the client's connection
\* error, a 5xx as the HTTP error with its status.
C15_TransientFailureSurfaced ==
    (/\ pc = "idle"
     /\ result.op = "request"
     /\ connected
     /\ ~cancelled
     /\ outcomes # <<>>
     /\ AllTransient(outcomes)) =>
        /\ Len(outcomes) = AtLeastOne(retries)
        /\ Len(waits) = Len(outcomes) - 1
        /\ result.kind = "raise"
        /\ IF outcomes[Len(outcomes)].kind = "error"
           THEN result.exc.cls = "MemosConnectionError"
           ELSE result.exc.status_code = outcomes[Len(outcomes)].status_code

\* C16: once a cancellation has been delivered to a request suspended in an
\* attempt or in a backoff sleep, the loop has stopped and the request has
\* raised the cancellation: no attempt and no wait follows it.
C16_CancellationStopsLoop ==
    cancelled =>
        /\ pc = "idle"
        /\ result.op = "request" => result = Raised("request", CancelledError)

C16_Witness ==
    /\ cancelled
    /\ retries = 3
    /\ outcomes = <<TransportFailure>>
    /\ waits = <<4>>
    /\ result = Raised("request", CancelledError)

\* a step of a _request call
RequestStep == pc # "idle" \/ pc' # "idle" \/ result'.op = "request"

\* C17: no step of a request changes connected, last_error, the transport
\* handle or the configuration; connected and the handle change only in
\* connect() and disconnect() (directly or through the context manager).
C17_RequestLeavesClientState ==
    [][/\ RequestStep => UNCHANGED <<retries, client, connected, last_error, open, nextHandle>>
       /\ retries' = retries
       /\ <<client, connected, last_error>>' # <<client, connected, last_error>> =>
              result'.op \in {"connect", "disconnect", "__aenter__", "async with"}]_vars

C17_Witness ==
    /\ RequestEnded
    /\ retries = 2
    /\ outcomes = <<TransportFailure, Response(500)>>
    /\ result.kind = "raise"
    /\ connected
    /\ client # 0
    /\ last_error = "None"

\* the seeded admin takes id 1 of the user store
Seeded(s) == IF s = "users" THEN 1 ELSE 0

\* C18: since the construction or the last reset of a store, the k-th create
\* that passes no id got id k (k+1 in the user store, after the seeded
\* admin) whatever creates with an id, updates and deletes came between, so
\* the assigned ids strictly increase and none is assigned twice; the entry
\* is stored under that id with the name '<resource>/<id>'.
C18_AutoIncrementIds ==
    \A s \in Stores :
        /\ \A k \in 1..Len(issued[s]) : issued[s][k] = Str(k + Seeded(s))
        /\ \A j, k \in 1..Len(issued[s]) : j < k => issued[s][j] # issued[s][k]
        /\ storage[s].counter = Len(issued[s]) + Seeded(s)
        /\ (resp.op = "create" /\ resp.auto /\ resp.store = s) =>
               /\ resp.id = issued[s][Len(issued[s])]
               /\ resp.id \in DOMAIN storage[s].entries
               /\ storage[s].entries[resp.id] = resp.value
               /\ resp.value = [name |-> ResourceName(s, resp.id), content |-> resp.arg]

C18_Witness ==
    /\ resp.op = "create"
    /\ resp.auto
    /\ resp.store = "users"
    /\ issued["users"] = <<Str(2), Str(3)>>
    /\ DOMAIN storage["users"].entries = {Str(3)}
    /\ issued["memos"] = <<Str(1)>>

\* the entries of store s other than id, and everything else of the storage,
\* are the same before and after the step
OthersUnchanged(s, id) ==
    /\ \A i \in (DOMAIN storage[s].entries) \ {id} :
           /\ i \in DOMAIN storage'[s].entries
           /\ storage'[s].entries[i] = storage[s].entries[i]
    /\ DOMAIN storage'[s].entries \subseteq (DOMAIN storage[s].entries) \cup {id}
    /\ storage'[s].counter = storage[s].counter
    /\ \A t \in Stores \ {s} : storage'[t] = storage[t]
    /\ issued' = issued

\* the HTTP status the routers of the user and attachment stores answer
RouterAnswers(s, ok) == s # "memos" => resp'.status = IF ok THEN 200 ELSE 404

\* C19: delete(id) returns True and removes exactly the entry under id when
\* id is present, returns False (404) and changes nothing when it is absent;
\* an absent id becomes present again only by a create under that id, and
\* until then get(id) returns nothing (404).
C19_Delete ==
    [][/\ resp'.op = "delete" =>
              LET s == resp'.store
                  id == resp'.id
              IN  IF id \in DOMAIN storage[s].entries
                  THEN /\ resp'.found
                       /\ RouterAnswers(s, TRUE)
                       /\ id \notin DOMAIN storage'[s].entries
                       /\ get(storage'[s], id) = NoRecord
                       /\ OthersUnchanged(s, id)
                  ELSE /\ ~resp'.found
                       /\ RouterAnswers(s, FALSE)
                       /\ storage' = storage
                       /\ issued' = issued
       /\ \A s \in Stores : \A id \in DOMAIN storage'[s].entries :
              id \notin DOMAIN storage[s].entries =>
                  resp'.op \in {"create", "reset"} /\ (resp'.op = "create" => resp'.id = id)
       /\ resp'.op = "get" =>
              /\ resp'.found <=> resp'.id \in DOMAIN storage[resp'.store].entries
              /\ RouterAnswers(resp'.store, resp'.found)
              /\ ~resp'.found => resp'.value = NoRecord]_vars

C19_Witness ==
    /\ resp.op = "delete"
    /\ resp.found
    /\ resp.store = "users"
    /\ resp.id = Str(2)
    /\ resp.status = 200
    /\ DOMAIN storage["users"].entries = {Str(1), Str(3)}
    /\ storage["users"].counter = 3

\* C20: update(id, record) never creates: for an absent id it returns None
\* (404) and changes nothing; for a present id it replaces that entry by the
\* record, named '<resource>/<id>', under the same id, returns it, get(id)
\* returns it, and the other entries and the counter stay.
C20_Update ==
    [][resp'.op = "update" =>
           LET s == resp'.store
               id == resp'.id
           IN  IF id \notin DOMAIN storage[s].entries
               THEN /\ ~resp'.found
                    /\ resp'.value = NoRecord
                    /\ RouterAnswers(s, FALSE)
                    /\ storage' = storage
                    /\ issued' = issued
               ELSE /\ resp'.found
                    /\ RouterAnswers(s, TRUE)
                    /\ resp'.value = [name |-> ResourceName(s, id), content |-> resp'.arg]
                    /\ DOMAIN storage'[s].entries = DOMAIN storage[s].entries
                    /\ get(storage'[s], id) = resp'.value
                    /\ OthersUnchanged(s, id)]_vars

C20_Witness ==
    /\ resp.op = "update"
    /\ resp.found
    /\ resp.store = "memos"
    /\ resp.id = Str(1)
    /\ resp.arg = "b"
    /\ storage["memos"].entries[Str(1)] = [name |-> ResourceName("memos", Str(1)), content |-> "b"]
    /\ Str(2) \in DOMAIN storage["memos"].entries
    /\ storage["memos"].entries[Str(2)].content = "a"
    /\ storage["memos"].counter = 2

\* C23: after a connect() that failed the client holds no transport handle,
\* and the transport constructed for that attempt has been closed.
C23_FailedConnectReleasesTransport ==
    (result.op = "connect" /\ result.kind = "raise") =>
        /\ client = 0
        /\ (nextHandle - 1) \notin open

\* the steps the loop of _request can still take: two per remaining
\* iteration, one less once the attempt of the current iteration is made
LoopVariant(p, a) ==
    2 * (AtLeastOne(retries) - a) - (IF p = "sleep" THEN 1 ELSE 0)

\* C24: a request on a connected client makes at most max(1, retries)
\* attempts, every step of its loop ends the call or brings the end nearer,
\* and the call ends either returning a response with a 2xx status or
\* raising an error.
C24_RequestEndsInResponseOrError ==
    [][/\ Len(outcomes') <= AtLeastOne(retries)
       /\ (pc # "idle" /\ pc' # "idle") =>
              /\ LoopVariant(pc', attempt') < LoopVariant(pc, attempt)
              /\ LoopVariant(pc', attempt') > 0
       /\ (connected /\ pc' = "idle" /\ result'.op = "request") =>
              \/ /\ result'.kind = "return"
                 /\ outcomes' # <<>>
                 /\ Is2xx(outcomes'[Len(outcomes')])
                 /\ result'.status_code = outcomes'[Len(outcomes')].status_code
              \/ /\ result'.kind = "raise"
                 /\ result'.exc # NoException]_vars

C24_Witness ==
    /\ connected
    /\ pc = "idle"
    /\ retries = MaxRetries
    /\ Len(outcomes) = MaxRetries
    /\ result = Returned("request", 201)

\* C25: whenever connection_info.connected is true a transport handle is
\* held, over every sequence of connect, disconnect and request calls.
C25_ConnectedHoldsTransport ==
    connected => client # 0

C25_Witness ==
    /\ connected
    /\ client = 2
    /\ result.op = "connect"
    /\ result.kind = "raise"
    /\ outcomes # <<>>

\* C26: a create on the memo or user store that passes no id never replaces
\* an entry: the id it assigns was absent just before the call and the
\* number of entries grows by exactly one.
C26_AutoCreateNeverReplaces ==
    [][(resp'.op = "create" /\ resp'.auto /\ resp'.store \in {"memos", "users"}) =>
           LET s == resp'.store
           IN  /\ resp'.id \notin DOMAIN storage[s].entries
               /\ Cardinality(DOMAIN storage'[s].entries)
                      = Cardinality(DOMAIN storage[s].entries) + 1]_vars

\* the stored access tokens
Tokens == storage["users"].access_tokens

\* the user id a token was created for, as its name records it
OwnerOf(tok) == Split(tok.name, "/")[2]

\* C27: create_access_token without a token id never replaces a token: the
\* id it assigns is not the id of a stored token, and every token stored
\* before is stored unchanged afterwards.
C27_TokenCreateNeverReplaces ==
    [][(resp'.op = "create_access_token" /\ resp'.auto /\ resp'.status = 200) =>
           /\ resp'.id \notin DOMAIN Tokens
           /\ \A t \in DOMAIN Tokens :
                  /\ t \in DOMAIN Tokens'
                  /\ Tokens'[t] = Tokens[t]]_vars

\* C28: list_access_tokens(u) returns exactly the stored tokens that were
\* created for user u.
C28_ListIsTokensOfUser ==
    resp.op = "list_access_tokens" =>
        resp.listed = {t \in DOMAIN Tokens : OwnerOf(Tokens[t]) = resp.user}

\* C29: DELETE /users/{u}/accessTokens/{t} removes token t exactly when it
\* was created for u; otherwise it answers 404 and the tokens are unchanged.
C29_DeleteOnlyOwnToken ==
    [][resp'.op = "delete_access_token" =>
           LET u == resp'.user
               t == resp'.id
           IN  IF t \in DOMAIN Tokens /\ OwnerOf(Tokens[t]) = u
               THEN /\ resp'.status = 200
                    /\ Tokens' = Remove(Tokens, t)
               ELSE /\ resp'.status = 404
                    /\ Tokens' = Tokens]_vars

\* the stored sessions
Sessions == storage["users"].sessions

\* C22: whatever users were created, updated or deleted before, a sign-in
\* with password credentials succeeds (200, a session for user 'admin')
\* exactly when the username is 'admin' and the password is 'password';
\* any other pair is rejected (401) and leaves the sessions unchanged.
C22_SignInByCredentialsOnly ==
    [][(resp'.op = "signin" /\ resp'.username # "None") =>
           IF resp'.username = "admin" /\ resp'.arg = "password"
           THEN /\ resp'.status = 200
                /\ resp'.value.content = "admin"
                /\ get_current_session(storage'["users"]).user = resp'.value
           ELSE /\ resp'.status = 401
                /\ Sessions' = Sessions]_vars

\* C30: the session is stored by a successful sign-in and by nothing else,
\* and removed by sign-out and by nothing else, so a session is stored
\* exactly when a sign-in has succeeded since the last sign-out (none
\* initially); GET /auth/status answers 200 with the stored session when
\* there is one and 401 otherwise; a failed sign-in leaves the sessions as
\* they are; sign-out answers 200 from every state.
C30_SessionStateMachine ==
    [][/\ resp.op = "init" => Sessions = NoSessions
       /\ resp'.op = "signin" =>
              IF resp'.status = 200
              THEN get_current_session(storage'["users"]) # NoSession
              ELSE Sessions' = Sessions
       /\ resp'.op = "signout" => (resp'.status = 200 /\ Sessions' = NoSessions)
       /\ resp'.op = "status" =>
              /\ Sessions' = Sessions
              /\ IF get_current_session(storage["users"]) # NoSession
                 THEN /\ resp'.status = 200
                      /\ resp'.value = get_current_session(storage["users"]).user
                 ELSE resp'.status = 401
       /\ resp'.op \notin {"signin", "signout", "status"} => Sessions' = Sessions]_vars

C30_Witness ==
    /\ resp.op = "status"
    /\ resp.status = 200
    /\ resp.value = AdminUser
    /\ get(storage["users"], Str(1)) = NoRecord

\* C21: reset() leaves the storage as a freshly constructed AppStorage: no
\* memos, attachments, activities, access tokens or sessions, the seeded
\* admin 'users/1' as only user, and the next memo and user created without
\* an id are 'memos/1' and 'users/2'.
C21_ResetIsFresh ==
    [][resp'.op = "reset" =>
           /\ storage' = AppStorage
           /\ \A s \in {"memos", "attachments", "activities"} :
                  DOMAIN storage'[s].entries = {}
           /\ DOMAIN Tokens' = {}
           /\ DOMAIN Sessions' = {}
           /\ DOMAIN storage'["users"].entries = {Str(1)}
           /\ get(storage'["users"], Str(1)) =
                  [name |-> ResourceName("users", Str(1)), content |-> "admin"]
           /\ create("memos", storage'["memos"], "a", None).ret.name
                  = ResourceName("memos", Str(1))
           /\ create("users", storage'["users"], "a", None).ret.name
                  = ResourceName("users", Str(2))]_vars

C21_Witness ==
    /\ resp.op = "reset"
    /\ creates = MaxCreates
    /\ storage = AppStorage

====
